---- MODULE Spec2Model ----
(***************************************************************************)
(* StRose: a discrete-event simulation of patients moving through care     *)
(* activities that occupy capacity-limited resources (strose.py), driven   *)
(* by the SimPy kernel (simpy.Environment, simpy.Resource, simpy.AllOf).   *)
(*                                                                         *)
(* The simulation state is threaded through the handlers as one record s   *)
(* (fields = the variables below); every action of Next is one step of     *)
(* Environment.run(): it pops the earliest event and runs its callbacks to *)
(* the next suspension point of the process it resumes.                    *)
(***************************************************************************)
EXTENDS Integers, Sequences, FiniteSets, TLC

VARIABLES
    cfg,        \* configuration: pool capacities, activity universe, plans
    now,        \* Environment.now
    eid,        \* Environment._eid, the insertion counter of the heap
    queue,      \* Environment._queue: scheduled events
    users,      \* Resource.users, per pool: granted requests, in grant order
    put_queue,  \* Resource.put_queue, per pool: pending requests, in arrival order
    heap,       \* the Need objects: care_activity, met, _met_timestamp
    pat,        \* the Patient objects: needs, journal, status
    proc,       \* one provide_care generator per patient: where it is suspended
    harness,    \* the run_simulation generator
    reqlog,     \* history: every request issued, in issue order
    grantlog,   \* history: every grant, in grant order
    trace,      \* history: every event dispatched, in dispatch order
    gcall,      \* a call of g_rand on its own: arguments and returned value
    twin,       \* a second run of the same configuration with the same draws
    raised,     \* the exception that has propagated out of the run, or "None"
    drv         \* a caller outside any process: the last call it made

vars == <<cfg, now, eid, queue, users, put_queue, heap, pat, proc, harness,
          reqlog, grantlog, trace, gcall, twin, raised, drv>>

----------------------------------------------------------------------------
(* Bounds of the model *)

MaxPatients == 2
MaxCap == 2
MaxTestPatients == 5
DrawSpread == 1
Scale == 2
MaxSigmas == 2

----------------------------------------------------------------------------
(* Numbers.  g_rand works on floats; the model keeps them in fixed point, *)
(* one unit = 1/Scale.  An integer result is a multiple of Scale.         *)

\* int(n): truncation toward zero
TruncTowardZero(n) == IF n >= 0 THEN (n \div Scale) * Scale
                                ELSE 0 - (((0 - n) \div Scale) * Scale)

\* a bound argument: None, a number, or a string 'ks' (k standard deviations)
NoBound == [kind |-> "none", v |-> 0]
NumBound(x) == [kind |-> "num", v |-> x]
SigmaBound(k) == [kind |-> "sig", v |-> k]

\* a g_rand that forgets to clamp at the minimum
g_rand_no_minimum(n, a) ==
    LET maximum == IF a.maximum.kind = "sig"
                   THEN a.mu + (a.sigma * a.maximum.v) ELSE a.maximum.v
        n1 == IF a.maximum.kind # "none" /\ n > maximum THEN maximum ELSE n
    IN  IF a.output_integers THEN TruncTowardZero(n1) ELSE n1

\* a g_rand that clamps at the minimum first and at the maximum last
g_rand_minimum_first(n, a) ==
    LET minimum == IF a.minimum.kind = "sig"
                   THEN a.mu - (a.sigma * a.minimum.v) ELSE a.minimum.v
        n1 == IF a.minimum.kind # "none" /\ n < minimum THEN minimum ELSE n
        maximum == IF a.maximum.kind = "sig"
                   THEN a.mu + (a.sigma * a.maximum.v) ELSE a.maximum.v
        n2 == IF a.maximum.kind # "none" /\ n1 > maximum THEN maximum ELSE n1
    IN  IF a.output_integers THEN TruncTowardZero(n2) ELSE n2

\* g_rand, given the value n that np.random.normal drew
g_rand(n, a) ==
    LET maximum == IF a.maximum.kind = "sig"
                   THEN a.mu + (a.sigma * a.maximum.v) ELSE a.maximum.v
        n1 == IF a.maximum.kind # "none" /\ n > maximum THEN maximum ELSE n
        minimum == IF a.minimum.kind = "sig"
                   THEN a.mu - (a.sigma * a.minimum.v) ELSE a.minimum.v
        n2 == IF a.minimum.kind # "none" /\ n1 < minimum THEN minimum ELSE n1
    IN  IF a.output_integers THEN TruncTowardZero(n2) ELSE n2

\* np.random.normal(mu, sigma): mu itself when sigma = 0, else any value
\* (here: within DrawSpread of mu)
normal(mu, sigma) ==
    IF sigma = 0 THEN {mu}
    ELSE {mu + z : z \in (0 - DrawSpread * Scale) .. (DrawSpread * Scale)}

\* the keyword arguments of g_rand with its defaults
TimeReq(mu, sigma, minimum, maximum) ==
    [mu |-> mu * Scale, sigma |-> sigma * Scale, minimum |-> minimum,
     maximum |-> maximum, output_integers |-> TRUE]

----------------------------------------------------------------------------
(* Configurations *)

\* a definition of ACTIVITY_DEFINITIONS, as the CareActivity built from it;
\* keep_resources_until_next_activity has its default
Activity(tr, res) ==
    [time_requirements |-> tr, required_resources |-> res,
     keep_resources_until_next_activity |-> TRUE]

\* test_strose.py: three stages of 30, 90 and 60, one pool each
TimeRequirements == <<30, 90, 60>>

TestActivities ==
    [k \in {"preop", "procedure", "recovery"} |->
        CASE k = "preop" ->
               Activity(TimeReq(TimeRequirements[1], 0, NoBound, NoBound), <<"preop_slot">>)
          [] k = "procedure" ->
               Activity(TimeReq(TimeRequirements[2], 0, NoBound, NoBound), <<"procedure_room">>)
          [] OTHER ->
               Activity(TimeReq(TimeRequirements[3], 0, NoBound, NoBound), <<"recovery_slot">>)]

TestConfigs ==
    {[capacity |-> [r \in {"preop_slot", "procedure_room", "recovery_slot"} |-> c],
      activities |-> TestActivities,
      plans |-> [p \in 1..n |-> <<"preop", "procedure", "recovery">>]] :
        n \in 1..MaxTestPatients, c \in 1..MaxTestPatients}

\* a unit with two pools, activities needing one pool, both pools in either
\* order, or one pool twice; "exam" has a random duration in 0..2
UnitActivities ==
    [k \in {"exam", "scan", "surgery", "double"} |->
        CASE k = "exam" ->
               Activity(TimeReq(1, 1, NumBound(0), SigmaBound(1)), <<"bed">>)
          [] k = "scan" ->
               [Activity(TimeReq(1, 0, NoBound, NoBound), <<"bed", "room">>)
                    EXCEPT !.keep_resources_until_next_activity = FALSE]
          [] k = "surgery" ->
               Activity(TimeReq(2, 0, NoBound, NoBound), <<"room", "bed">>)
          [] OTHER ->
               Activity(TimeReq(1, 0, NoBound, NoBound), <<"bed", "bed">>)]

UnitPlans ==
    {<<>>, <<"exam">>, <<"exam", "scan">>, <<"surgery", "exam">>, <<"scan">>,
     <<"double", "exam">>}

UnitConfigs ==
    {[capacity |-> cap, activities |-> UnitActivities, plans |-> plans] :
        cap \in [{"bed", "room"} -> 1..MaxCap],
        plans \in UNION {[1..n -> UnitPlans] : n \in 1..MaxPatients}}

\* a unit with one pool and an activity whose duration has no lower bound:
\* "obs" lasts -1, 0 or 1
NegActivities ==
    [k \in {"obs", "exam"} |->
        IF k = "obs"
        THEN Activity(TimeReq(0, 1, NoBound, NoBound), <<"bed">>)
        ELSE Activity(TimeReq(1, 0, NumBound(0), NoBound), <<"bed">>)]

NegPlans == {<<>>, <<"obs">>, <<"obs", "exam">>, <<"exam", "obs">>}

NegConfigs ==
    {[capacity |-> cap, activities |-> NegActivities, plans |-> plans] :
        cap \in [{"bed"} -> 1..MaxCap],
        plans \in UNION {[1..n -> NegPlans] : n \in 1..MaxPatients}}

\* units whose patients are all built on one list of Need objects
SharePlans == {<<"exam">>, <<"exam", "scan">>, <<"surgery", "exam">>}

ShareConfigs ==
    {[capacity |-> cap, activities |-> UnitActivities, plans |-> [p \in 1..n |-> plan]] :
        cap \in [{"bed", "room"} -> 1..MaxCap], plan \in SharePlans,
        n \in 1..MaxPatients}

Pools(c) == DOMAIN c.capacity
Patients(c) == DOMAIN c.plans

----------------------------------------------------------------------------
(* Construction: gen_resource_universe, gen_activity_universe, Patient *)

RECURSIVE SumLen(_, _)
SumLen(plans, p) == IF p = 0 THEN 0 ELSE Len(plans[p]) + SumLen(plans, p - 1)

\* the Need object made for the k-th entry of patient p's needs_list
NeedId(plans, p, k) == SumLen(plans, p - 1) + k

\* Need.__init__
Need(care_activity) ==
    [care_activity |-> care_activity, met |-> FALSE, met_timestamp |-> <<>>]

\* Patient.__init__ with needs_list: one new Need per label
Patient(plans, p) ==
    [needs |-> [k \in 1..Len(plans[p]) |-> NeedId(plans, p, k)],
     journal |-> <<>>,
     status |-> <<"None", "-">>]

\* Patient.__init__ with needs: the patient keeps the list it is given
PatientWithNeeds(needs) ==
    [needs |-> needs, journal |-> <<>>, status |-> <<"None", "-">>]

NeedsOf(plans) ==
    [n \in 1..SumLen(plans, Len(plans)) |->
        LET p == CHOOSE q \in 1..Len(plans) :
                     SumLen(plans, q - 1) < n /\ n <= SumLen(plans, q)
        IN  Need(plans[p][n - SumLen(plans, p - 1)])]

----------------------------------------------------------------------------
(* The simulation state as one record, and its write-back *)

S == [now |-> now, eid |-> eid, queue |-> queue, users |-> users,
      put_queue |-> put_queue, heap |-> heap, pat |-> pat, proc |-> proc,
      harness |-> harness, reqlog |-> reqlog, grantlog |-> grantlog,
      trace |-> trace, raised |-> raised]

CommitRun(s) ==
    /\ now' = s.now
    /\ eid' = s.eid
    /\ queue' = s.queue
    /\ users' = s.users
    /\ put_queue' = s.put_queue
    /\ heap' = s.heap
    /\ pat' = s.pat
    /\ proc' = s.proc
    /\ harness' = s.harness
    /\ reqlog' = s.reqlog
    /\ grantlog' = s.grantlog
    /\ trace' = s.trace
    /\ raised' = s.raised
    /\ UNCHANGED <<cfg, gcall>>

\* one run on its own: there is no second run and no outside caller
Commit(s) == CommitRun(s) /\ UNCHANGED <<twin, drv>>

----------------------------------------------------------------------------
(* simpy.Environment: the event heap, keyed (time, priority, eid) *)

Event(t, prio, id, kind, who, pool, idx) ==
    [t |-> t, prio |-> prio, eid |-> id, kind |-> kind, who |-> who,
     pool |-> pool, idx |-> idx]

\* Environment.schedule(event, priority, delay)
schedule(s, prio, delay, kind, who, pool, idx) ==
    [s EXCEPT !.queue = @ \cup {Event(s.now + delay, prio, s.eid, kind, who, pool, idx)},
              !.eid = @ + 1]

\* a heap order that breaks ties by the newest insertion
Before_newest_first(e, f) ==
    \/ e.t < f.t
    \/ /\ e.t = f.t
       /\ \/ e.prio = "URGENT" /\ f.prio = "NORMAL"
          \/ e.prio = f.prio /\ e.eid > f.eid

\* a heap order without the insertion counter
Before_no_eid(e, f) ==
    \/ e.t < f.t
    \/ e.t = f.t /\ e.prio = "URGENT" /\ f.prio = "NORMAL"

\* the heap order: time, then URGENT before NORMAL, then insertion order
Before(e, f) ==
    \/ e.t < f.t
    \/ /\ e.t = f.t
       /\ \/ e.prio = "URGENT" /\ f.prio = "NORMAL"
          \/ e.prio = f.prio /\ e.eid < f.eid

\* the events heappop may return
Earliest(q) == {e \in q : \A f \in q : ~Before(f, e)}

\* Environment.step: pop the event and advance the clock to its time
step(s, ev) ==
    [s EXCEPT !.queue = @ \ {ev},
              !.now = ev.t,
              !.trace = Append(@, [t |-> ev.t, prio |-> ev.prio, eid |-> ev.eid,
                                   kind |-> ev.kind, who |-> ev.who])]

----------------------------------------------------------------------------
(* simpy.Resource *)

InSeq(x, seq) == \E j \in 1..Len(seq) : seq[j] = x

\* a removal that drops the oldest element whatever x is
Remove_oldest(seq, x) == IF seq = <<>> THEN seq ELSE Tail(seq)

\* list.remove(x): drops the first occurrence, and is caught when x is absent
Remove(seq, x) ==
    LET j == CHOOSE k \in 1..Len(seq) :
                 seq[k] = x /\ \A m \in 1..(k - 1) : seq[m] # x
    IN  IF InSeq(x, seq)
        THEN SubSeq(seq, 1, j - 1) \o SubSeq(seq, j + 1, Len(seq))
        ELSE seq

\* a grant whose event is scheduled one unit of time later
succeed_request_late(s, pool, r) ==
    [schedule(s, "NORMAL", 1, "Request", r.p, pool, r.i)
        EXCEPT !.grantlog = Append(@, [ticket |-> r.ticket, pool |-> pool,
                                       p |-> r.p, t |-> s.now, released |-> 0])]

\* Event.succeed of a Request: it is scheduled, and the grant is logged
succeed_request(s, pool, r) ==
    [schedule(s, "NORMAL", 0, "Request", r.p, pool, r.i)
        EXCEPT !.grantlog = Append(@, [ticket |-> r.ticket, pool |-> pool,
                                       p |-> r.p, t |-> s.now, released |-> 0])]

\* a _do_put that forgets the capacity test
do_put_unbounded(s, pool, r) ==
    succeed_request([s EXCEPT !.users[pool] = Append(@, r)], pool, r)

\* Resource._do_put
do_put(s, pool, r) ==
    IF Len(s.users[pool]) < cfg.capacity[pool]
    THEN succeed_request([s EXCEPT !.users[pool] = Append(@, r)], pool, r)
    ELSE s

\* a _trigger_put that tries the newest request first
put_candidate_newest(q) == q[Len(q)]

\* which request of the put queue BaseResource._trigger_put tries
put_candidate(q) == Head(q)

\* BaseResource._trigger_put: Resource._do_put returns None, so the loop ends
\* after the head of the queue
trigger_put(s, pool) ==
    IF s.put_queue[pool] = <<>> THEN s
    ELSE LET r == put_candidate(s.put_queue[pool])
             s1 == do_put(s, pool, r)
         IN  IF InSeq(r, s1.users[pool])
             THEN [s1 EXCEPT !.put_queue[pool] = Remove(@, r)]
             ELSE s1

\* Resource.request(): the Request joins the put queue, then _trigger_put
\* (the log keeps whether the pool had a free unit, and whether the request
\* was granted before request() returned)
request(s, p, need, pool, i) ==
    LET r == [p |-> p, i |-> i, ticket |-> Len(s.reqlog) + 1]
        s1 == [s EXCEPT !.put_queue[pool] = Append(@, r),
                        !.proc[p].reqs = Append(@, r)]
        s2 == trigger_put(s1, pool)
    IN  [s2 EXCEPT !.reqlog =
                       Append(@, [p |-> p, need |-> need, i |-> i, pool |-> pool,
                                  t |-> s.now,
                                  free |-> Len(s.users[pool]) < cfg.capacity[pool],
                                  at_once |-> InSeq(r, s2.users[pool])])]

\* a release that frees the unit and schedules no Release event
release_unscheduled(s, pool, r) == [s EXCEPT !.users[pool] = Remove(@, r)]

\* Resource.release(request): _do_get removes the request from users if it is
\* there, and the Release event succeeds at once (the log of grants counts the
\* releases of each granted request)
release(s, pool, r) ==
    schedule([s EXCEPT !.users[pool] = Remove(@, r),
                       !.grantlog = [g \in DOMAIN @ |->
                                        IF @[g].ticket = r.ticket
                                        THEN [@[g] EXCEPT !.released = @ + 1]
                                        ELSE @[g]]],
             "NORMAL", 0, "Release", r.p, pool, r.i)

----------------------------------------------------------------------------
(* simpy.AllOf *)

\* AnyOf's evaluate function, in the place of AllOf's
any_events(events, count) == count > 0 \/ Len(events) = 0

\* AllOf's evaluate function
all_events(events, count) == Len(events) = count

\* Condition._check, the callback of each member event
check(s, p) ==
    IF s.proc[p].allof # "pending" THEN s
    ELSE LET s1 == [s EXCEPT !.proc[p].count = @ + 1]
         IN  IF all_events(s1.proc[p].reqs, s1.proc[p].count)
             THEN schedule([s1 EXCEPT !.proc[p].allof = "triggered"],
                           "NORMAL", 0, "AllOf", p, "-", 0)
             ELSE s1

\* Condition.__init__: succeeds at once when there are no member events
AllOf(s, p) ==
    IF s.proc[p].reqs = <<>>
    THEN schedule([s EXCEPT !.proc[p].allof = "triggered", !.proc[p].count = 0],
                  "NORMAL", 0, "AllOf", p, "-", 0)
    ELSE [s EXCEPT !.proc[p].allof = "pending", !.proc[p].count = 0]

----------------------------------------------------------------------------
(* Patient and Need *)

\* Patient.journal_entry
journal_entry(s, p, entry, timestamp) ==
    [s EXCEPT !.pat[p].journal = Append(@, [timestamp |-> timestamp, entry |-> entry])]

\* Patient.status_update(status, timestamp, journal=journal)
status_update(s, p, status, timestamp, journal) ==
    LET s1 == [s EXCEPT !.pat[p].status = status]
    IN  IF journal THEN journal_entry(s1, p, status, timestamp) ELSE s1

\* the status strings '<label>:queue', '<label>:start', '<label>:end'
Stage(label, stage) == <<label, stage>>

\* a lookup that returns the last unmet need of the list
get_next_unmet_need_last(s, p) ==
    LET needs == s.pat[p].needs
        unmet == {k \in 1..Len(needs) : ~s.heap[needs[k]].met}
    IN  IF unmet = {} THEN 0
        ELSE needs[CHOOSE k \in unmet : \A m \in unmet : k >= m]

\* Patient.get_next_unmet_need: the first unmet need in list order, 0 for None
get_next_unmet_need(s, p) ==
    LET needs == s.pat[p].needs
        unmet == {k \in 1..Len(needs) : ~s.heap[needs[k]].met}
    IN  IF unmet = {} THEN 0
        ELSE needs[CHOOSE k \in unmet : \A m \in unmet : k <= m]

\* Need._meet
meet(s, n, timestamp) ==
    [s EXCEPT !.heap[n].met = TRUE, !.heap[n].met_timestamp = <<timestamp>>]

----------------------------------------------------------------------------
(* SimulatedUnit.provide_care, cut at its two yields *)

RECURSIVE requests_last_first(_, _, _, _, _)
\* a request loop that walks the list from its end
requests_last_first(s, p, n, res, i) ==
    IF i > Len(res) THEN s
    ELSE request(requests_last_first(s, p, n, res, i + 1), p, n, res[i], i)

RECURSIVE requests(_, _, _, _, _)
\* reqs = [r.request() for r in n.care_activity.required_resources]
requests(s, p, n, res, i) ==
    IF i > Len(res) THEN s
    ELSE requests(request(s, p, n, res[i], i), p, n, res, i + 1)

\* a release loop that releases only the first required resource
releases_first_only(s, p, res, i) ==
    IF res = <<>> THEN s ELSE release(s, res[1], s.proc[p].reqs[1])

RECURSIVE releases_unless_kept(_, _, _, _)
\* a release loop that obeys keep_resources_until_next_activity
releases_unless_kept(s, p, res, i) ==
    IF i > Len(res)
       \/ cfg.activities[s.heap[s.proc[p].n].care_activity].keep_resources_until_next_activity
    THEN s
    ELSE releases_unless_kept(release(s, res[i], s.proc[p].reqs[i]), p, res, i + 1)

RECURSIVE releases(_, _, _, _)
\* [resource.release(reqs[i]) for i, resource in enumerate(required_resources)]
releases(s, p, res, i) ==
    IF i > Len(res) THEN s
    ELSE releases(release(s, res[i], s.proc[p].reqs[i]), p, res, i + 1)

\* a last statement that journals: status_update('Complete', journal=True)
complete_journaled(s, p) == status_update(s, p, Stage("Complete", "-"), s.now, TRUE)

\* the last statement: patient.status_update('Complete'), journal=False
complete(s, p) == status_update(s, p, Stage("Complete", "-"), s.now, FALSE)

\* from the while test to `yield reqs_allof`, or to the end of the generator
provide_care_loop(s, p) ==
    LET n == get_next_unmet_need(s, p)
    IN  IF n = 0
        THEN LET s1 == complete(s, p)
             IN  schedule([s1 EXCEPT !.proc[p].pc = "ended", !.proc[p].n = 0],
                          "NORMAL", 0, "Process", p, "-", 0)
        ELSE LET label == s.heap[n].care_activity
                 res == cfg.activities[label].required_resources
                 s1 == status_update(s, p, Stage(label, "queue"), s.now, TRUE)
                 s2 == status_update(s1, p, Stage(label, "requires resources"), s.now, FALSE)
                 s3 == requests([s2 EXCEPT !.proc[p].n = n, !.proc[p].reqs = <<>>],
                                p, n, res, 1)
             IN  [AllOf(s3, p) EXCEPT !.proc[p].pc = "AllOf"]

\* env.timeout(delay)
timeout(s, delay, who) == schedule(s, "NORMAL", delay, "Timeout", who, "-", 0)

\* a Timeout that takes any delay
timeout_raises_never(delay) == FALSE

\* Timeout.__init__: `if delay < 0: raise ValueError`
timeout_raises(delay) == delay < 0

\* an exception leaves the generator of p: Process._resume fails the process
\* event and schedules it
process_fails(s, p) ==
    schedule([s EXCEPT !.proc[p].pc = "raised"], "NORMAL", 0, "Process", p, "-", 0)

\* resumed by the AllOf event: from `yield reqs_allof` to `yield env.timeout(...)`;
\* drawn is the value np.random.normal returns inside g_rand
provide_care_start(s, p, drawn) ==
    LET label == s.heap[s.proc[p].n].care_activity
        s1 == status_update(s, p, Stage(label, "start"), s.now, TRUE)
        d == g_rand(drawn, cfg.activities[label].time_requirements) \div Scale
        s2 == [s1 EXCEPT !.proc[p].resumed = @ + 1, !.proc[p].duration = d,
                         !.proc[p].sampled = Append(@, d)]
    IN  IF timeout_raises(d)
        THEN process_fails(s2, p)
        ELSE timeout([s2 EXCEPT !.proc[p].pc = "Timeout"], d, p)

\* Environment.step on a Process event: it has no callbacks; a failed one that
\* nobody waited for re-raises its exception out of run()
process_event(s, ev) ==
    LET s1 == step(s, ev)
    IN  IF ev.who # 0 /\ s.proc[ev.who].pc = "raised"
        THEN [s1 EXCEPT !.raised = "ValueError"]
        ELSE s1

\* resumed by the Timeout event: from `timestamp_met = env.now` to the releases,
\* then the while test again
provide_care_end(s, p) ==
    LET n == s.proc[p].n
        label == s.heap[n].care_activity
        s1 == meet(s, n, s.now)
        s2 == status_update(s1, p, Stage(label, "end"), s.now, TRUE)
        s3 == releases(s2, p, cfg.activities[label].required_resources, 1)
        s4 == status_update(s3, p, Stage(label, "resources released"), s.now, FALSE)
    IN  provide_care_loop([s4 EXCEPT !.proc[p].resumed = 0], p)

----------------------------------------------------------------------------
(* run_simulation (test_strose.py): spawns the patients in list order, *)
(* yielding a zero timeout after each                                   *)

\* env.process(generator): the Initialize event is URGENT
process(s, who) == schedule(s, "URGENT", 0, "Initialize", who, "-", 0)

\* a run_simulation that lets one unit of time pass between two patients
run_simulation_staggered(s) ==
    IF s.harness.i < Len(cfg.plans)
    THEN LET p == s.harness.i + 1
             s1 == process([s EXCEPT !.proc[p].pc = "Initialize"], p)
         IN  timeout([s1 EXCEPT !.harness = [pc |-> "Timeout", i |-> p]], 1, 0)
    ELSE schedule([s EXCEPT !.harness.pc = "ended"], "NORMAL", 0, "Process", 0, "-", 0)

run_simulation(s) ==
    IF s.harness.i < Len(cfg.plans)
    THEN LET p == s.harness.i + 1
             s1 == process([s EXCEPT !.proc[p].pc = "Initialize"], p)
         IN  timeout([s1 EXCEPT !.harness = [pc |-> "Timeout", i |-> p]], 0, 0)
    ELSE schedule([s EXCEPT !.harness.pc = "ended"], "NORMAL", 0, "Process", 0, "-", 0)

----------------------------------------------------------------------------
(* Initial states *)

NoCall == [pc |-> "idle", n |-> 0, a |-> TimeReq(0, 0, NoBound, NoBound), ret |-> 0]

\* a fresh Environment, the pools of configuration c, the Need objects needs
\* and the Patient objects patients, with the events q scheduled and the next
\* event id next_eid
InitObjects(c, q, next_eid, needs, patients) ==
    /\ cfg = c
    /\ now = 0
    /\ eid = next_eid
    /\ queue = q
    /\ users = [r \in Pools(c) |-> <<>>]
    /\ put_queue = [r \in Pools(c) |-> <<>>]
    /\ heap = needs
    /\ pat = patients
    /\ proc = [p \in Patients(c) |->
                 [pc |-> "unborn", n |-> 0, reqs |-> <<>>, count |-> 0,
                  allof |-> "none", resumed |-> 0, duration |-> 0,
                  sampled |-> <<>>]]
    /\ harness = [pc |-> "Initialize", i |-> 0]
    /\ reqlog = <<>>
    /\ grantlog = <<>>
    /\ trace = <<>>
    /\ raised = "None"

\* every patient is built from its needs_list
InitEnv(c, q, next_eid) ==
    InitObjects(c, q, next_eid, NeedsOf(c.plans),
                [p \in Patients(c) |-> Patient(c.plans, p)])

\* env.process(run_simulation(...)) has scheduled the harness's Initialize
InitSim(c) == InitEnv(c, {Event(0, "URGENT", 0, "Initialize", 0, "-", 0)}, 1)

NoTwin == [queue |-> {}, raised |-> "None"]

NoDriver == [op |-> "none", case |-> "-", calls |-> 0]

Init ==
    \E c \in UnitConfigs :
        InitSim(c) /\ gcall = NoCall /\ twin = NoTwin /\ drv = NoDriver

InitTest ==
    \E c \in TestConfigs :
        InitSim(c) /\ gcall = NoCall /\ twin = NoTwin /\ drv = NoDriver

\* runs in which a sampled duration may be negative
InitNeg ==
    \E c \in NegConfigs :
        InitSim(c) /\ gcall = NoCall /\ twin = NoTwin /\ drv = NoDriver

\* runs in which every patient was given the same Need objects:
\* Patient(needs=the_needs) for each of them
InitShared ==
    \E c \in ShareConfigs :
        /\ InitObjects(c, {Event(0, "URGENT", 0, "Initialize", 0, "-", 0)}, 1,
                       NeedsOf(<<c.plans[1]>>),
                       [p \in Patients(c) |->
                           PatientWithNeeds([k \in 1..Len(c.plans[1]) |-> k])])
        /\ gcall = NoCall /\ twin = NoTwin /\ drv = NoDriver

\* two runs of one configuration
InitTwin ==
    \E c \in UnitConfigs :
        InitSim(c) /\ gcall = NoCall /\ twin = S /\ drv = NoDriver

\* the arguments g_rand is called with, and the value np.random.normal draws
GNumbers == (0 - Scale - 1) .. (Scale + 1)

GBounds ==
    {NoBound} \cup {NumBound(x) : x \in GNumbers}
              \cup {SigmaBound(k) : k \in 0..MaxSigmas}

GCalls ==
    {[pc |-> "call", n |-> n, ret |-> 0,
      a |-> [mu |-> mu, sigma |-> sigma, minimum |-> lo, maximum |-> hi,
             output_integers |-> int]] :
        mu \in (0 - Scale)..Scale, sigma \in 0..Scale, n \in GNumbers \cup (0 - 2 * Scale)..(2 * Scale),
        lo \in GBounds, hi \in GBounds, int \in BOOLEAN}

\* a call of g_rand outside any simulation
InitG ==
    /\ gcall \in {c \in GCalls : c.n \in normal(c.a.mu, c.a.sigma)}
    /\ cfg = [capacity |-> <<>>, activities |-> <<>>, plans |-> <<>>]
    /\ now = 0 /\ eid = 0 /\ queue = {}
    /\ users = <<>> /\ put_queue = <<>> /\ heap = <<>> /\ pat = <<>> /\ proc = <<>>
    /\ harness = [pc |-> "ended", i |-> 0]
    /\ reqlog = <<>> /\ grantlog = <<>> /\ trace = <<>>
    /\ twin = NoTwin /\ raised = "None" /\ drv = NoDriver

----------------------------------------------------------------------------
(* Environment.run(): one action per kind of event popped *)

\* the events run() may pop next: none once an exception has left run()
Runnable(s) == IF s.raised = "None" THEN Earliest(s.queue) ELSE {}

\* the Initialize event of run_simulation
StartHarness ==
    \E ev \in Runnable(S) :
        /\ ev.kind = "Initialize" /\ ev.who = 0
        /\ Commit(run_simulation(step(S, ev)))

\* run_simulation's zero timeout
HarnessTimeout ==
    \E ev \in Runnable(S) :
        /\ ev.kind = "Timeout" /\ ev.who = 0
        /\ Commit(run_simulation(step(S, ev)))

\* the Initialize event of a provide_care process
StartPatient ==
    \E ev \in Runnable(S) :
        /\ ev.kind = "Initialize" /\ ev.who # 0
        /\ Commit(provide_care_loop(step(S, ev), ev.who))

\* a granted Request is processed: Resource._trigger_get finds no pending
\* Release, then the AllOf's _check
RequestProcessed ==
    \E ev \in Runnable(S) :
        /\ ev.kind = "Request"
        /\ Commit(check(step(S, ev), ev.who))

\* the AllOf is processed: the process resumes and starts occupying
AllOfProcessed ==
    \E ev \in Runnable(S) :
        /\ ev.kind = "AllOf"
        /\ \E drawn \in normal(cfg.activities[heap[proc[ev.who].n].care_activity].time_requirements.mu,
                               cfg.activities[heap[proc[ev.who].n].care_activity].time_requirements.sigma) :
               Commit(provide_care_start(step(S, ev), ev.who, drawn))

\* the occupancy timeout elapses
TimeoutProcessed ==
    \E ev \in Runnable(S) :
        /\ ev.kind = "Timeout" /\ ev.who # 0
        /\ Commit(provide_care_end(step(S, ev), ev.who))

\* a Release is processed: its callback is Resource._trigger_put
ReleaseProcessed ==
    \E ev \in Runnable(S) :
        /\ ev.kind = "Release"
        /\ Commit(trigger_put(step(S, ev), ev.pool))

\* the event of a generator that has returned or raised
ProcessEnded ==
    \E ev \in Runnable(S) :
        /\ ev.kind = "Process"
        /\ Commit(process_event(S, ev))

Next ==
    \/ StartHarness
    \/ HarnessTimeout
    \/ StartPatient
    \/ RequestProcessed
    \/ AllOfProcessed
    \/ TimeoutProcessed
    \/ ReleaseProcessed
    \/ ProcessEnded

Spec == Init /\ [][Next]_vars

\* g_rand is called and returns
CallGRand ==
    /\ gcall.pc = "call"
    /\ gcall' = [gcall EXCEPT !.pc = "returned", !.ret = g_rand(gcall.n, gcall.a)]
    /\ UNCHANGED <<cfg, now, eid, queue, users, put_queue, heap, pat, proc,
                   harness, reqlog, grantlog, trace, twin, raised, drv>>

SpecG == InitG /\ [][CallGRand]_vars

\* what Environment.step does with the event it has popped
Handle(s, ev, drawn) ==
    CASE ev.kind = "Initialize" /\ ev.who = 0 -> run_simulation(step(s, ev))
      [] ev.kind = "Timeout" /\ ev.who = 0 -> run_simulation(step(s, ev))
      [] ev.kind = "Initialize" /\ ev.who # 0 -> provide_care_loop(step(s, ev), ev.who)
      [] ev.kind = "Request" -> check(step(s, ev), ev.who)
      [] ev.kind = "AllOf" -> provide_care_start(step(s, ev), ev.who, drawn)
      [] ev.kind = "Timeout" /\ ev.who # 0 -> provide_care_end(step(s, ev), ev.who)
      [] ev.kind = "Release" -> trigger_put(step(s, ev), ev.pool)
      [] OTHER -> process_event(s, ev)

\* the values np.random.normal may return when ev resumes a process in s
DrawsFor(s, ev) ==
    IF ev.kind = "AllOf"
    THEN normal(cfg.activities[s.heap[s.proc[ev.who].n].care_activity].time_requirements.mu,
                cfg.activities[s.heap[s.proc[ev.who].n].care_activity].time_requirements.sigma)
    ELSE {0}

\* both runs take a step, each popping its own heap, with the same draw
StepBoth ==
    \E ev \in Runnable(S), ev2 \in Runnable(twin) :
        \E drawn \in DrawsFor(S, ev) :
            /\ CommitRun(Handle(S, ev, drawn))
            /\ twin' = Handle(twin, ev2, drawn)
            /\ UNCHANGED drv

SpecTwin == InitTwin /\ [][StepBoth]_vars

SpecTest == InitTest /\ [][Next]_vars

SpecNeg == InitNeg /\ [][Next]_vars

SpecShared == InitShared /\ [][Next]_vars

\* runs of every unit: durations that are never negative, and durations that
\* may be
InitAny == Init \/ InitNeg

SpecAny == InitAny /\ [][Next]_vars

----------------------------------------------------------------------------
(* Resource.request and Resource.release called by code outside any process, *)
(* with request handles it may or may not hold                                *)

MaxRequests == 3
MaxReleases == 3

\* one pool, and one holder of request handles whose process never starts
ReleaseConfigs ==
    {[capacity |-> [r \in {"bed"} |-> k], activities |-> UnitActivities,
      plans |-> <<<<>>>>] : k \in 1..MaxCap}

InitRelease ==
    \E c \in ReleaseConfigs :
        /\ InitEnv(c, {}, 0)
        /\ gcall = NoCall /\ twin = NoTwin /\ drv = NoDriver

\* where a request handle stands at its pool
HandleCase(s, pool, r) ==
    IF InSeq(r, s.users[pool]) THEN "granted"
    ELSE IF InSeq(r, s.put_queue[pool]) THEN "pending"
    ELSE "released"

\* the caller issues one more request
DrvRequest ==
    /\ raised = "None"
    /\ Len(reqlog) < MaxRequests
    /\ CommitRun(request(S, 1, 0, "bed", Len(proc[1].reqs) + 1))
    /\ drv' = [op |-> "request", case |-> "-", calls |-> drv.calls + 1]
    /\ UNCHANGED twin

\* the caller releases any handle it was ever given
DrvRelease ==
    \E j \in 1..Len(proc[1].reqs) :
        /\ raised = "None"
        /\ eid < MaxRequests + MaxReleases
        /\ CommitRun(release(S, "bed", proc[1].reqs[j]))
        /\ drv' = [op |-> "release", case |-> HandleCase(S, "bed", proc[1].reqs[j]),
                   calls |-> drv.calls + 1]
        /\ UNCHANGED twin

NextRelease ==
    \/ DrvRequest
    \/ DrvRelease
    \/ RequestProcessed
    \/ ReleaseProcessed

SpecRelease == InitRelease /\ [][NextRelease]_vars

----------------------------------------------------------------------------
(* The constructors CareActivity, Need and Patient called with arguments of *)
(* any class, before anything runs                                           *)

MaxArgs == 2

Obj(class, name) == [class |-> class, name |-> name]

\* what a constructor gives back: the object built, or the exception raised
Built(class, parts) == [exc |-> "None", class |-> class, parts |-> parts]
Raise(exc) == [exc |-> exc, class |-> "-", parts |-> <<>>]

\* a CareActivity that accepts its list when any element is a Resource
CareActivity_init_any(required_resources) ==
    IF required_resources = <<>>
       \/ \E i \in 1..Len(required_resources) :
              required_resources[i].class = "Resource"
    THEN Built("CareActivity", required_resources)
    ELSE Raise("Exception")

\* CareActivity.__init__
CareActivity_init(required_resources) ==
    IF \A i \in 1..Len(required_resources) :
           required_resources[i].class = "Resource"
    THEN Built("CareActivity", required_resources)
    ELSE Raise("Exception")

\* Need.__init__
Need_init(care_activity) ==
    IF care_activity.class = "CareActivity"
    THEN Built("Need", <<care_activity>>)
    ELSE Raise("Exception")

\* Patient._need_from_activity_label: activity_universe[activity_label]
need_from_activity_label(activity_label, activity_universe) ==
    IF activity_label \in activity_universe
    THEN Need_init(Obj("CareActivity", activity_label))
    ELSE Raise("KeyError")

\* Patient.__init__: needs_list is read only when needs is empty and every
\* element of needs_list is a string
Patient_init(needs, needs_list, activity_universe) ==
    IF Len(needs) = 0 /\ \A i \in 1..Len(needs_list) : needs_list[i].class = "str"
    THEN IF \E i \in 1..Len(needs_list) :
               need_from_activity_label(needs_list[i].name, activity_universe).exc # "None"
         THEN LET i == CHOOSE k \in 1..Len(needs_list) :
                           /\ need_from_activity_label(needs_list[k].name,
                                                       activity_universe).exc # "None"
                           /\ \A m \in 1..(k - 1) :
                                  need_from_activity_label(needs_list[m].name,
                                                           activity_universe).exc = "None"
              IN  need_from_activity_label(needs_list[i].name, activity_universe)
         ELSE Built("Patient", [i \in 1..Len(needs_list) |->
                                   Obj("Need", needs_list[i].name)])
    ELSE Built("Patient", needs)

BuildObjects ==
    {Obj("Resource", "bed"), Obj("Resource", "room"), Obj("str", "bed"),
     Obj("str", "exam"), Obj("str", "scan"), Obj("CareActivity", "exam"),
     Obj("Need", "exam")}

BuildLists == UNION {[1..n -> BuildObjects] : n \in 0..MaxArgs}

BuildUniverses == {{"exam", "scan"}, {"exam"}, {}}

BuildCalls ==
    {[op |-> "call", class |-> "CareActivity", args |-> a, needs |-> <<>>,
      universe |-> {}, result |-> Raise("-")] : a \in BuildLists}
    \cup {[op |-> "call", class |-> "Need", args |-> <<o>>, needs |-> <<>>,
           universe |-> {}, result |-> Raise("-")] : o \in BuildObjects}
    \cup {[op |-> "call", class |-> "Patient", args |-> a, needs |-> n,
           universe |-> u, result |-> Raise("-")] :
              a \in BuildLists, n \in {<<>>, <<Obj("Need", "exam")>>},
              u \in BuildUniverses}

InitBuild ==
    \E c \in ReleaseConfigs :
        /\ InitEnv(c, {}, 0)
        /\ gcall = NoCall /\ twin = NoTwin /\ drv \in BuildCalls

\* the constructor runs: it returns an object or raises
Construct ==
    /\ drv.op = "call"
    /\ LET result == CASE drv.class = "CareActivity" -> CareActivity_init(drv.args)
                       [] drv.class = "Need" -> Need_init(drv.args[1])
                       [] OTHER -> Patient_init(drv.needs, drv.args, drv.universe)
       IN  /\ drv' = [drv EXCEPT !.op = "done", !.result = result]
           /\ raised' = result.exc
    /\ UNCHANGED <<cfg, now, eid, queue, users, put_queue, heap, pat, proc,
                   harness, reqlog, grantlog, trace, gcall, twin>>

SpecBuild == InitBuild /\ [][Construct]_vars

----------------------------------------------------------------------------
(* Properties *)

RequiredResources(p) ==
    cfg.activities[heap[proc[p].n].care_activity].required_resources

\* C1: every pool's in-use count stays between 0 and its capacity
InUseWithinCapacity ==
    \A r \in Pools(cfg) : 0 <= Len(users[r]) /\ Len(users[r]) <= cfg.capacity[r]

\* C1 witness: a pool is full while a request is waiting for it
PoolFullWithWaiter ==
    \E r \in Pools(cfg) : Len(users[r]) = cfg.capacity[r] /\ put_queue[r] # <<>>

\* the grants of pool r, as the tickets of the granted requests, in grant order
GrantsOf(r) == SelectSeq(grantlog, LAMBDA g : g.pool = r)

\* C2: per pool, requests are granted in the order they were issued, and no
\* request is granted while an earlier one of the same pool is pending
GrantsInIssueOrder ==
    \A r \in Pools(cfg) :
        /\ \A i, j \in 1..Len(GrantsOf(r)) :
               i < j => GrantsOf(r)[i].ticket < GrantsOf(r)[j].ticket
        /\ \A k \in 1..Len(put_queue[r]), i \in 1..Len(GrantsOf(r)) :
               GrantsOf(r)[i].ticket < put_queue[r][k].ticket

\* C2 witness: a request that had to wait was granted while a later one of
\* the same pool was still pending
WaiterGrantedBeforeLaterRequest ==
    \E r \in Pools(cfg) :
        /\ put_queue[r] # <<>>
        /\ \E i \in 1..Len(GrantsOf(r)) :
               GrantsOf(r)[i].t > reqlog[GrantsOf(r)[i].ticket].t


AllEnded == \A p \in Patients(cfg) : proc[p].pc = "ended"

AllMet == \A n \in DOMAIN heap : heap[n].met

Count(seq, x) == Cardinality({i \in 1..Len(seq) : seq[i] = x})

\* no activity of any plan lists a pool more often than the pool has units
Feasible ==
    \A p \in Patients(cfg) : \A k \in 1..Len(cfg.plans[p]) : \A r \in Pools(cfg) :
        Count(cfg.activities[cfg.plans[p][k]].required_resources, r) <= cfg.capacity[r]

\* C3 as stated: for every configuration, when the event queue is empty every
\* process has terminated with all its needs met
NoStuckRun == queue = {} => AllEnded /\ AllMet

RECURSIVE EventsOfPlan(_, _)
\* the events one plan puts on the heap: per need one Request and one Release
\* for each listed pool, the AllOf and the Timeout
EventsOfPlan(plan, k) ==
    IF k = 0 THEN 0
    ELSE 2 * Len(cfg.activities[plan[k]].required_resources) + 2
         + EventsOfPlan(plan, k - 1)

RECURSIVE EventBudget(_)
\* all events of a run: Initialize and Process of run_simulation, and per
\* patient its Initialize, its Process, one zero timeout of run_simulation and
\* the events of its plan
EventBudget(p) ==
    IF p = 0 THEN 2
    ELSE 3 + EventsOfPlan(cfg.plans[p], Len(cfg.plans[p])) + EventBudget(p - 1)

\* C3 amended: when no activity lists a pool more often than the pool has
\* units, the run never stops with a process left waiting, and it stops after
\* a bounded number of events: when the event queue is empty every process has
\* terminated with all its needs met
NoStuckRunWhenFeasible ==
    Feasible =>
        /\ Len(trace) <= EventBudget(Len(cfg.plans))
        /\ queue = {} => AllEnded /\ AllMet /\ Len(trace) = EventBudget(Len(cfg.plans))

\* C3 witness: two patients needing the same two pools in opposite orders have
\* both finished, after one of them waited
OppositeOrdersFinished ==
    /\ AllEnded /\ AllMet
    /\ \E p, q \in Patients(cfg) :
           /\ InSeq("scan", cfg.plans[p]) /\ InSeq("surgery", cfg.plans[q])
           /\ \E g \in 1..Len(grantlog) :
                  grantlog[g].p = q /\ grantlog[g].t > reqlog[grantlog[g].ticket].t

\* patient p holds a granted request on every pool its current need requires
HoldsAll(p) ==
    /\ Len(proc[p].reqs) = Len(RequiredResources(p))
    /\ \A i \in 1..Len(proc[p].reqs) :
           InSeq(proc[p].reqs[i], users[RequiredResources(p)[i]])

GrantTime(r) == (CHOOSE g \in DOMAIN grantlog : grantlog[g].ticket = r.ticket)

LastEntry(p) == pat[p].journal[Len(pat[p].journal)]

\* C4: for a need requiring two or more pools, the AllOf triggers and the
\* process starts occupying only while it holds every required pool; it is
\* resumed once, and 'start' is stamped with the time of the last grant
StartsOnlyHoldingAll ==
    \A p \in Patients(cfg) :
        (proc[p].n # 0 /\ Len(RequiredResources(p)) >= 2) =>
            /\ (proc[p].pc = "AllOf" /\ proc[p].allof = "triggered") => HoldsAll(p)
            /\ proc[p].pc = "AllOf" => proc[p].resumed = 0
            /\ proc[p].pc = "Timeout" =>
                   /\ HoldsAll(p)
                   /\ proc[p].resumed = 1
                   /\ LastEntry(p).entry = Stage(heap[proc[p].n].care_activity, "start")
                   /\ \A i \in 1..Len(proc[p].reqs) :
                          grantlog[GrantTime(proc[p].reqs[i])].t <= LastEntry(p).timestamp
                   /\ \E i \in 1..Len(proc[p].reqs) :
                          grantlog[GrantTime(proc[p].reqs[i])].t = LastEntry(p).timestamp

\* C4 witness: a patient occupies two pools that were granted at different times
OccupiesAfterStaggeredGrants ==
    \E p \in Patients(cfg) :
        /\ proc[p].pc = "Timeout" /\ Len(RequiredResources(p)) >= 2
        /\ \E i, j \in 1..Len(proc[p].reqs) :
               grantlog[GrantTime(proc[p].reqs[i])].t < grantlog[GrantTime(proc[p].reqs[j])].t


\* the timestamps of patient p's journal entries equal to entry
Stamps(p, entry) ==
    LET es == SelectSeq(pat[p].journal, LAMBDA e : e.entry = entry)
    IN  [k \in 1..Len(es) |-> es[k].timestamp]

\* every pool has capacity c
UniformCapacity(c) == \A r \in Pools(cfg) : cfg.capacity[r] = c

\* C5: with one unit per pool, the k-th patient's 'recovery:end' is stamped
\* 180 + 90*(k-1), and when the run is over every patient has that entry
SerializedFinishes ==
    UniformCapacity(1) =>
        \A p \in Patients(cfg) :
            /\ Len(Stamps(p, Stage("recovery", "end"))) <= 1
            /\ \A k \in 1..Len(Stamps(p, Stage("recovery", "end"))) :
                   Stamps(p, Stage("recovery", "end"))[k] = 180 + 90 * (p - 1)
            /\ queue = {} => Len(Stamps(p, Stage("recovery", "end"))) = 1

\* C5 witness: five patients, one unit per pool, the run is over and the
\* fifth patient finished at 540
FifthFinishesAt540 ==
    /\ UniformCapacity(1) /\ Len(cfg.plans) = 5 /\ queue = {}
    /\ Stamps(5, Stage("recovery", "end")) = <<540>>

RECURSIVE SumSeq(_, _)
SumSeq(seq, k) == IF k = 0 THEN 0 ELSE seq[k] + SumSeq(seq, k - 1)

\* C6: when every pool has at least as many units as there are patients, no
\* request waits, every patient's last stage ends at the sum of the stage
\* durations, and the run ends with the clock at that sum
NoContentionFinishes ==
    (\A r \in Pools(cfg) : cfg.capacity[r] >= Len(cfg.plans)) =>
        /\ \A r \in Pools(cfg) : put_queue[r] = <<>>
        /\ \A g \in 1..Len(grantlog) : grantlog[g].t = reqlog[grantlog[g].ticket].t
        /\ \A p \in Patients(cfg) :
               /\ \A k \in 1..Len(Stamps(p, Stage("recovery", "end"))) :
                      Stamps(p, Stage("recovery", "end"))[k] = SumSeq(TimeRequirements, 3)
               /\ queue = {} => Stamps(p, Stage("recovery", "end")) = <<180>>
        /\ queue = {} => now = SumSeq(TimeRequirements, 3) /\ AllEnded

\* C6 witness: five patients and five units per pool, the run is over at 180
FiveUncontendedDoneAt180 ==
    /\ UniformCapacity(5) /\ Len(cfg.plans) = 5 /\ queue = {} /\ now = 180
    /\ \A p \in Patients(cfg) : Stamps(p, Stage("recovery", "end")) = <<180>>


\* the dispatched events that run a process on: its start, a timeout expiry,
\* the resumption by a satisfied AllOf
Continuation(e) == e.kind \in {"Initialize", "Timeout", "AllOf"}

\* the position in reqlog of patient p's first request, 0 if it has none
FirstRequest(p) ==
    IF \E k \in 1..Len(reqlog) : reqlog[k].p = p
    THEN CHOOSE k \in 1..Len(reqlog) :
             reqlog[k].p = p /\ \A m \in 1..(k - 1) : reqlog[m].p # p
    ELSE 0

\* patients issue their first requests in list order
FirstRequestsInListOrder ==
    \A p, q \in Patients(cfg) :
        (p < q /\ FirstRequest(q) # 0) =>
            (FirstRequest(p) # 0 /\ FirstRequest(p) < FirstRequest(q))

ClockNeverBackward ==
    \A i, j \in 1..Len(trace) : i < j => trace[i].t <= trace[j].t

\* C8 as stated: continuations are dispatched in non-decreasing time, those of
\* one time in the order they were scheduled, and first requests are issued in
\* list order
DispatchInScheduleOrder ==
    /\ ClockNeverBackward
    /\ \A i, j \in 1..Len(trace) :
           (i < j /\ trace[i].t = trace[j].t
                  /\ Continuation(trace[i]) /\ Continuation(trace[j])) =>
               trace[i].eid < trace[j].eid
    /\ FirstRequestsInListOrder

\* C8 amended: events are dispatched in non-decreasing time; among events of
\* one time and one priority the dispatch order is the schedule order; only
\* process starts are urgent; first requests are issued in list order
DispatchInHeapOrder ==
    /\ ClockNeverBackward
    /\ \A i, j \in 1..Len(trace) :
           (i < j /\ trace[i].t = trace[j].t /\ trace[i].prio = trace[j].prio) =>
               trace[i].eid < trace[j].eid
    /\ \A i \in 1..Len(trace) :
           trace[i].prio = "URGENT" <=> trace[i].kind = "Initialize"
    /\ FirstRequestsInListOrder

\* C8 witness: a process start was dispatched ahead of a resumption scheduled
\* before it for the same time, and three patients have issued requests
StartOvertookResumption ==
    /\ \E i, j \in 1..Len(trace) :
           /\ i < j /\ trace[i].t = trace[j].t /\ trace[i].eid > trace[j].eid
           /\ trace[i].kind = "Initialize" /\ trace[j].kind = "AllOf"
    /\ \E p \in Patients(cfg) : p >= 3 /\ FirstRequest(p) # 0


UpperBound(a) ==
    IF a.maximum.kind = "sig" THEN a.mu + a.maximum.v * a.sigma ELSE a.maximum.v

LowerBound(a) ==
    IF a.minimum.kind = "sig" THEN a.mu - a.minimum.v * a.sigma ELSE a.minimum.v

Whole(x) == x % Scale = 0

\* C7 as stated: whatever the arguments, the returned value is not above the
\* upper bound and not below the lower bound
BoundsRespected ==
    gcall.pc = "returned" =>
        /\ gcall.a.maximum.kind # "none" => gcall.ret <= UpperBound(gcall.a)
        /\ gcall.a.minimum.kind # "none" => gcall.ret >= LowerBound(gcall.a)

\* the lower bound does not lie above the upper bound
BoundsConsistent(a) ==
    (a.maximum.kind # "none" /\ a.minimum.kind # "none") => LowerBound(a) <= UpperBound(a)

\* C7 amended: with float output the value is never below the lower bound,
\* and never above the upper bound unless the lower bound lies above it; with
\* integer output the value is that one truncated toward zero: it is less
\* than 1 away from a bound it passes, and it keeps a lower bound that is whole
\* or not positive and an upper bound that is whole or not negative
BoundsRespectedUpToTruncation ==
    gcall.pc = "returned" =>
        /\ (gcall.a.minimum.kind # "none" /\ ~gcall.a.output_integers) =>
               gcall.ret >= LowerBound(gcall.a)
        /\ (gcall.a.maximum.kind # "none" /\ ~gcall.a.output_integers
                /\ BoundsConsistent(gcall.a)) =>
               gcall.ret <= UpperBound(gcall.a)
        /\ (gcall.a.minimum.kind # "none" /\ gcall.a.output_integers) =>
               /\ Whole(gcall.ret)
               /\ gcall.ret > LowerBound(gcall.a) - Scale
               /\ (Whole(LowerBound(gcall.a)) \/ LowerBound(gcall.a) <= 0) =>
                      gcall.ret >= LowerBound(gcall.a)
        /\ (gcall.a.maximum.kind # "none" /\ gcall.a.output_integers
                /\ BoundsConsistent(gcall.a)) =>
               /\ Whole(gcall.ret)
               /\ gcall.ret < UpperBound(gcall.a) + Scale
               /\ (Whole(UpperBound(gcall.a)) \/ UpperBound(gcall.a) >= 0) =>
                      gcall.ret <= UpperBound(gcall.a)

\* C7 witness: a draw below a lower bound of k standard deviations came back
\* as that bound, with an upper bound present too
ClampedAtSigmaBound ==
    /\ gcall.pc = "returned" /\ ~gcall.a.output_integers
    /\ gcall.a.minimum.kind = "sig" /\ gcall.a.minimum.v > 0 /\ gcall.a.sigma > 0
    /\ gcall.a.maximum.kind = "num"
    /\ gcall.n < LowerBound(gcall.a) /\ gcall.ret = LowerBound(gcall.a)

\* C10 as stated: a terminated process has left a completion entry as the
\* last entry of its patient's journal
CompletionJournaled ==
    \A p \in Patients(cfg) :
        proc[p].pc = "ended" =>
            /\ pat[p].journal # <<>>
            /\ LastEntry(p).entry = Stage("Complete", "-")

\* C10 amended: when no unmet need remains the process sets the patient's
\* status to 'Complete' and terminates without a journal entry: the journal
\* of a terminated patient holds queue, start, end of each need and nothing
\* else, its last entry being the 'end' of the last need
CompletionInStatusOnly ==
    \A p \in Patients(cfg) :
        /\ pat[p].status = Stage("Complete", "-") <=> proc[p].pc = "ended"
        /\ \A k \in 1..Len(pat[p].journal) :
               pat[p].journal[k].entry # Stage("Complete", "-")
        /\ proc[p].pc = "ended" =>
               /\ get_next_unmet_need(S, p) = 0
               /\ Len(pat[p].journal) = 3 * Len(pat[p].needs)
               /\ pat[p].journal # <<>> =>
                      LastEntry(p).entry =
                          Stage(cfg.plans[p][Len(cfg.plans[p])], "end")

\* C10 witness: a patient with two needs has terminated
TwoNeedsPatientEnded ==
    \E p \in Patients(cfg) :
        proc[p].pc = "ended" /\ Len(pat[p].needs) = 2 /\ Len(pat[p].journal) = 6

\* a release of a handle that is not among the pool's users
InvalidReleaseCall ==
    drv'.calls = drv.calls + 1 /\ drv'.op = "release" /\ drv'.case # "granted"

\* C11 as stated: releasing a request that was never granted or was already
\* released fails with InvalidRelease and changes neither the in-use count nor
\* the wait queue
InvalidReleaseFails ==
    [][InvalidReleaseCall =>
          /\ raised' = "InvalidRelease"
          /\ users' = users
          /\ put_queue' = put_queue]_vars

\* C11, amended: such a release is accepted without any error; it changes
\* neither the in-use count nor the wait queue, and schedules its Release
\* event like any other release
InvalidReleaseAccepted ==
    [][InvalidReleaseCall =>
          /\ raised' = "None"
          /\ users' = users
          /\ put_queue' = put_queue
          /\ eid' = eid + 1
          /\ \E e \in queue' \ queue :
                 e.kind = "Release" /\ e.t = now /\ e.eid = eid]_vars

\* C11 witness: an already released handle was released again while another
\* request was waiting for the pool
ReleasedTwiceWithWaiter ==
    /\ drv.op = "release"
    /\ drv.case = "released"
    /\ \E r \in Pools(cfg) : put_queue[r] # <<>>

\* C12: a negative sampled duration makes env.timeout raise where provide_care
\* calls it: no timeout is scheduled for the patient, its need is not met, its
\* journal ends with the need's start entry, the error leaves the run, and the
\* clock never moves backward
NegativeDurationRaises ==
    /\ \A p \in Patients(cfg) :
          proc[p].duration < 0 =>
              /\ proc[p].pc = "raised"
              /\ ~heap[proc[p].n].met
              /\ heap[proc[p].n].met_timestamp = <<>>
              /\ LastEntry(p).entry = Stage(heap[proc[p].n].care_activity, "start")
              /\ \A e \in queue : ~(e.kind = "Timeout" /\ e.who = p)
              /\ \/ raised = "ValueError"
                 \/ \E e \in queue : e.kind = "Process" /\ e.who = p /\ e.t = now
    /\ raised # "None" => \E p \in Patients(cfg) : proc[p].duration < 0
    /\ \A e \in queue : e.t >= now
    /\ ClockNeverBackward

\* C12 witness: a patient drew a negative duration after another need of its
\* plan was met, and the error has left the run
NegativeDurationRaised ==
    \E p \in Patients(cfg) :
        /\ proc[p].duration < 0
        /\ raised = "ValueError"
        /\ Len(pat[p].journal) > 3

\* the arguments of the constructor call are invalid
InvalidBuild ==
    \/ /\ drv.class = "CareActivity"
       /\ \E i \in 1..Len(drv.args) : drv.args[i].class # "Resource"
    \/ /\ drv.class = "Need"
       /\ drv.args[1].class # "CareActivity"
    \/ /\ drv.class = "Patient"
       /\ drv.needs = <<>>
       /\ \A i \in 1..Len(drv.args) : drv.args[i].class = "str"
       /\ \E i \in 1..Len(drv.args) : drv.args[i].name \notin drv.universe

\* C13: a CareActivity given a required resource that is not a pool, a Need on
\* something that is not a CareActivity, and a Patient built from an activity
\* name that the universe lacks all raise in the constructor; nothing is built,
\* no process exists and no pool has changed
BuildFailsFast ==
    drv.op = "done" =>
        /\ InvalidBuild <=> raised # "None"
        /\ InvalidBuild =>
              /\ drv.result.class = "-"
              /\ raised = (IF drv.class = "Patient" THEN "KeyError" ELSE "Exception")
              /\ queue = {} /\ trace = <<>> /\ eid = 0
              /\ \A p \in Patients(cfg) : proc[p].pc = "unborn"
              /\ \A r \in Pools(cfg) : users[r] = <<>> /\ put_queue[r] = <<>>

\* C13 witness: a Patient whose second activity name is not in the universe
\* was refused
UnknownActivityRefused ==
    /\ drv.op = "done"
    /\ drv.class = "Patient"
    /\ Len(drv.args) = 2
    /\ drv.args[1].name \in drv.universe
    /\ drv.args[2].name \notin drv.universe
    /\ raised = "KeyError"

\* the ways of ranking the pools
PoolOrders ==
    {ord \in [Pools(cfg) -> 1..Cardinality(Pools(cfg))] :
        \A r1, r2 \in Pools(cfg) : ord[r1] = ord[r2] => r1 = r2}

\* C14 as stated: there is one ranking of the pools that every process follows
\* when it issues the requests of a need, whatever order the activity lists
IssuedInGlobalOrder ==
    \E ord \in PoolOrders :
        \A i, j \in 1..Len(reqlog) :
            (i < j /\ reqlog[i].p = reqlog[j].p /\ reqlog[i].need = reqlog[j].need)
                => ord[reqlog[i].pool] <= ord[reqlog[j].pool]

\* C14, amended: the requests of a need are issued back to back, at one time,
\* in the order in which the need's activity lists its required resources
IssuedInListOrder ==
    \A k \in 1..Len(reqlog) :
        LET res == cfg.activities[heap[reqlog[k].need].care_activity].required_resources
        IN  /\ reqlog[k].i \in 1..Len(res)
            /\ reqlog[k].pool = res[reqlog[k].i]
            /\ reqlog[k].i > 1 =>
                  /\ k > 1
                  /\ reqlog[k - 1].p = reqlog[k].p
                  /\ reqlog[k - 1].need = reqlog[k].need
                  /\ reqlog[k - 1].i = reqlog[k].i - 1
                  /\ reqlog[k - 1].t = reqlog[k].t
            /\ reqlog[k].i = 1 =>
                  \A m \in 1..(k - 1) : reqlog[m].need # reqlog[k].need

\* C14 witness: one patient asked for the bed and then the room, another for
\* the room and then the bed
OppositeOrdersIssued ==
    \E i, j \in 1..Len(reqlog) :
        /\ i > 1 /\ j > 1
        /\ reqlog[i].p # reqlog[j].p
        /\ reqlog[i].i = 2 /\ reqlog[i].pool = "room" /\ reqlog[i - 1].pool = "bed"
        /\ reqlog[j].i = 2 /\ reqlog[j].pool = "bed" /\ reqlog[j - 1].pool = "room"

\* the k-th entry of the journal of a patient that follows plan to its end
ExpectedEntry(plan, k) ==
    Stage(plan[(k + 2) \div 3],
          CASE k % 3 = 1 -> "queue" [] k % 3 = 2 -> "start" [] OTHER -> "end")

\* the journal of p is the beginning of queue, start, end of each need of its
\* plan in list order, with timestamps that never decrease, and every end is
\* later than its start by the duration sampled for that need
JournalFollowsPlan(p) ==
    LET j == pat[p].journal
    IN  /\ Len(j) <= 3 * Len(cfg.plans[p])
        /\ \A k \in 1..Len(j) : j[k].entry = ExpectedEntry(cfg.plans[p], k)
        /\ \A k \in 2..Len(j) : j[k - 1].timestamp <= j[k].timestamp
        /\ Len(proc[p].sampled) = (Len(j) + 1) \div 3
        /\ \A k \in 1..Len(j) :
               k % 3 = 0 => j[k].timestamp - j[k - 1].timestamp = proc[p].sampled[k \div 3]

\* a step leaves the journal of p alone or appends to it, and appends only
\* when the event it dispatched resumed p's own process
JournalAppendedByOwner(p) ==
    \/ pat'[p].journal = pat[p].journal
    \/ /\ Len(pat'[p].journal) > Len(pat[p].journal)
       /\ SubSeq(pat'[p].journal, 1, Len(pat[p].journal)) = pat[p].journal
       /\ Len(trace') = Len(trace) + 1
       /\ trace'[Len(trace')].who = p

\* C15: each patient's journal is append-only and written by its own process
\* only; it is always a prefix of queue, start, end of each need in plan order,
\* no need skipped or repeated, with non-decreasing timestamps, and for each
\* need end - start is the duration sampled for it
JournalInPlanOrder ==
    /\ [](\A p \in Patients(cfg) : JournalFollowsPlan(p))
    /\ [][\A p \in Patients(cfg) : JournalAppendedByOwner(p)]_vars

\* C15 witness: a patient of two needs waited for its first need, which then
\* took two units of time, and has journaled all six entries
FullJournalAfterWait ==
    \E p \in Patients(cfg) :
        /\ Len(pat[p].journal) = 6
        /\ pat[p].journal[1].timestamp < pat[p].journal[2].timestamp
        /\ proc[p].sampled[1] = 2

\* the requests of patient p that pool r has granted or is keeping waiting
AtPool(p, r) ==
    {x \in {users[r][k] : k \in 1..Len(users[r])}
            \cup {put_queue[r][k] : k \in 1..Len(put_queue[r])} : x.p = p}

\* the timestamp of the last 'end' entry of p's journal, -1 if there is none
LastEnd(p) ==
    LET j == pat[p].journal
        ends == {k \in 1..Len(j) : j[k].entry[2] = "end"}
    IN  IF ends = {} THEN 0 - 1
        ELSE j[CHOOSE k \in ends : \A m \in ends : m <= k].timestamp

\* C16: a patient releases no request of a need before all of them are granted
\* and the timeout has elapsed; it then releases them all at the time of the
\* 'end' entry, before it requests anything for the next need, so that a
\* patient waiting for its next need holds nothing of the previous one,
\* whatever keep_resources_until_next_activity says
ReleasesAllAtEnd ==
    /\ \A p \in Patients(cfg) :
          /\ \A r \in Pools(cfg) : \A x \in AtPool(p, r) :
                 /\ proc[p].pc \in {"AllOf", "Timeout"}
                 /\ reqlog[x.ticket].need = proc[p].n
                 /\ InSeq(x, proc[p].reqs)
          /\ proc[p].pc = "AllOf" =>
                 /\ \A i \in 1..Len(proc[p].reqs) :
                        proc[p].reqs[i] \in AtPool(p, RequiredResources(p)[i])
                 /\ \A e \in queue : ~(e.kind = "Release" /\ e.who = p /\ e.t # LastEnd(p))
          /\ proc[p].pc = "Timeout" =>
                 /\ HoldsAll(p)
                 /\ \A e \in queue : ~(e.kind = "Release" /\ e.who = p)
          /\ \A e \in queue : (e.kind = "Release" /\ e.who = p) => e.t = LastEnd(p)
    /\ (Cardinality(Patients(cfg)) = 1 /\ Feasible) =>
          \A r \in Pools(cfg) : put_queue[r] = <<>>

\* C16 witness: a patient whose first activity says to keep its resources is
\* waiting for the pools of its second need and holds no unit at all
WaitsHoldingNothing ==
    \E p \in Patients(cfg) :
        /\ proc[p].pc = "AllOf"
        /\ Len(pat[p].journal) = 4
        /\ cfg.activities[cfg.plans[p][1]].keep_resources_until_next_activity
        /\ \E r \in Pools(cfg) : \E k \in 1..Len(put_queue[r]) : put_queue[r][k].p = p
        /\ \A r \in Pools(cfg) : \A k \in 1..Len(users[r]) : users[r][k].p # p

\* pool r has a request waiting although one of its units is free
FreeWhileWaiting(r) == put_queue[r] # <<>> /\ Len(users[r]) < cfg.capacity[r]

\* some patient released a unit of pool r at time time: it journaled the end of
\* a need whose activity requires r
ReleasedAt(r, time) ==
    \E q \in Patients(cfg) : \E k \in 1..Len(pat[q].journal) :
        /\ pat[q].journal[k].timestamp = time
        /\ pat[q].journal[k].entry[2] = "end"
        /\ InSeq(r, cfg.activities[pat[q].journal[k].entry[1]].required_resources)

\* a request that had to wait is granted at the time of a release of its pool
WaitersGrantedAtRelease ==
    \A g \in 1..Len(grantlog) :
        grantlog[g].t > reqlog[grantlog[g].ticket].t
            => ReleasedAt(grantlog[g].pool, grantlog[g].t)

\* C17 as stated: pools are work-conserving: whenever control is back at the
\* event loop no pool has a pending request while its in-use count is below
\* its capacity, and a waiter is granted at the time of the release
WorkConserving ==
    /\ \A r \in Pools(cfg) : ~FreeWhileWaiting(r)
    /\ WaitersGrantedAtRelease

\* C17, amended: a pool has a pending request and a free unit at the event loop
\* only while the Release event of a release of that pool, made at the current
\* time, is still to be processed; a waiter is granted at the time of the
\* release
WorkConservingAfterRelease ==
    /\ \A r \in Pools(cfg) :
          FreeWhileWaiting(r) =>
              /\ ReleasedAt(r, now)
              /\ \E e \in queue : e.kind = "Release" /\ e.pool = r /\ e.t = now
    /\ WaitersGrantedAtRelease

\* C17 witness: a unit was released while a request was waiting, the Release
\* event has been processed and the waiter holds the unit
ReleaseProcessedWaiterGranted ==
    \E g \in 1..Len(grantlog) :
        /\ grantlog[g].t > reqlog[grantlog[g].ticket].t
        /\ trace[Len(trace)].kind = "Release"
        /\ \A r \in Pools(cfg) : ~FreeWhileWaiting(r)

\* the position in trace of the AllOf event that resumed p for its m-th need,
\* 0 if it has not been dispatched
AllOfIndex(p, m) ==
    LET mine(i) == trace[i].kind = "AllOf" /\ trace[i].who = p
        is == {i \in 1..Len(trace) :
                  mine(i) /\ Cardinality({k \in 1..i : mine(k)}) = m}
    IN  IF is = {} THEN 0 ELSE CHOOSE i \in is : TRUE

\* the position in trace of the continuation of p that journaled 'queue' for
\* its m-th need: the last one before that need's AllOf event
QueueIndex(p, m) ==
    LET js == {j \in 1..(AllOfIndex(p, m) - 1) :
                  trace[j].who = p /\ trace[j].kind \in {"Initialize", "Timeout"}}
    IN  CHOOSE j \in js : \A k \in js : k <= j

\* the log entries of the requests p issued for its m-th need
RequestsFor(p, m) ==
    {k \in 1..Len(reqlog) : reqlog[k].p = p /\ reqlog[k].need = pat[p].needs[m]}

\* p has journaled 'start' for its m-th need
Started(p, m) == m \in 1..Len(pat[p].needs) /\ Len(pat[p].journal) >= 3 * m - 1

\* C18 as stated: when every required pool had a free unit as the patient
\* issued its requests, 'start' is stamped with the time of 'queue' and no
\* other patient's continuation runs between the two steps
ResolvesWithoutSuspending ==
    \A p \in Patients(cfg) : \A m \in 1..Len(pat[p].needs) :
        (Started(p, m) /\ \A k \in RequestsFor(p, m) : reqlog[k].free) =>
            /\ pat[p].journal[3 * m - 1].timestamp = pat[p].journal[3 * m - 2].timestamp
            /\ \A i \in (QueueIndex(p, m) + 1)..(AllOfIndex(p, m) - 1) :
                   ~(Continuation(trace[i]) /\ trace[i].who \notin {0, p})

\* C18, amended: when every request was granted as it was issued, 'start' is
\* stamped with the time of 'queue'; the process is suspended all the same and
\* is resumed by the AllOf event, after the event of each of its requests has
\* been dispatched
StartsAtQueueTimeWhenGranted ==
    \A p \in Patients(cfg) : \A m \in 1..Len(pat[p].needs) :
        Started(p, m) =>
            /\ (\A k \in RequestsFor(p, m) : reqlog[k].at_once) =>
                   pat[p].journal[3 * m - 1].timestamp =
                       pat[p].journal[3 * m - 2].timestamp
            /\ AllOfIndex(p, m) # 0
            /\ \A k \in RequestsFor(p, m) :
                   \E i \in (QueueIndex(p, m) + 1)..(AllOfIndex(p, m) - 1) :
                       /\ trace[i].kind = "Request"
                       /\ trace[i].who = p
                       /\ trace[i].t >= reqlog[k].t

\* C18 witness: a patient found both pools of its need free, started at the
\* time it queued, and another patient's continuation ran in between
StartedAfterOthersRan ==
    \E p \in Patients(cfg) : \E m \in 1..Len(pat[p].needs) :
        /\ Started(p, m)
        /\ Cardinality(RequestsFor(p, m)) = 2
        /\ \A k \in RequestsFor(p, m) : reqlog[k].at_once
        /\ \E i \in (QueueIndex(p, m) + 1)..(AllOfIndex(p, m) - 1) :
               Continuation(trace[i]) /\ trace[i].who \notin {0, p}

\* C19: for every Need object, also one that is in the plan of several
\* patients, met goes from false to true at most once and never back, and the
\* met-timestamp is set once, to the clock at which the need's timeout elapsed,
\* and never overwritten
MetOnce ==
    [][\A n \in DOMAIN heap :
          /\ heap[n].met => heap'[n].met
          /\ (~heap[n].met /\ heap'[n].met) => heap'[n].met_timestamp = <<now'>>
          /\ heap[n].met_timestamp # <<>> =>
                 heap'[n].met_timestamp = heap[n].met_timestamp]_vars

\* g_rand was called with both bounds, the lower above the upper
InconsistentCall ==
    /\ gcall.pc # "call"
    /\ gcall.a.minimum.kind # "none" /\ gcall.a.maximum.kind # "none"
    /\ LowerBound(gcall.a) > UpperBound(gcall.a)

\* C20 as stated: a call whose resolved lower bound is above its resolved upper
\* bound fails with an error and returns no value
InconsistentBoundsFail ==
    InconsistentCall => (raised # "None" /\ gcall.pc # "returned")

\* C20, amended: such a call raises nothing and returns the lower bound,
\* truncated toward zero when integer output is on
InconsistentBoundsReturnLower ==
    InconsistentCall =>
        /\ raised = "None"
        /\ gcall.pc = "returned"
        /\ gcall.ret = IF gcall.a.output_integers
                       THEN TruncTowardZero(LowerBound(gcall.a))
                       ELSE LowerBound(gcall.a)

\* C20 witness: a call with the lower bound above the upper one returned a
\* value above the upper bound although the draw was below it
ReturnedAboveUpper ==
    /\ InconsistentCall
    /\ gcall.pc = "returned"
    /\ gcall.n < UpperBound(gcall.a)
    /\ gcall.ret > UpperBound(gcall.a)

\* the grants of pool r that no release has followed
Held(r) ==
    {g \in 1..Len(grantlog) : grantlog[g].pool = r /\ grantlog[g].released = 0}

\* each pool's in-use count is the number of its requests granted and not
\* released, and no granted request is released twice
InUseIsHeld ==
    /\ \A r \in Pools(cfg) : Len(users[r]) = Cardinality(Held(r))
    /\ \A g \in 1..Len(grantlog) : grantlog[g].released <= 1

\* a step that makes a release is a continuation of the process that issued
\* the released request, resumed by its timeout
ReleasedByIssuer ==
    \A e \in queue' \ queue :
        e.kind = "Release" =>
            /\ Len(trace') = Len(trace) + 1
            /\ trace'[Len(trace')].kind = "Timeout"
            /\ trace'[Len(trace')].who = e.who

\* the run is over: run() has nothing left to pop, or an exception has left it
RunOver == Runnable(S) = {}

====
